---- MODULE Spec2Model ----
(***************************************************************************)
(* WagerBrain staking engine (BnkRllBrn), its risk manager                 *)
(* (DynamicRiskManager), history ledger (HistoryBuffer) and log queue      *)
(* (GlobalLogWriter), as a state machine.                                  *)
(*                                                                         *)
(* Numbers.  Money is a Decimal in the code and exact; here every amount   *)
(* of money is an integer number of ticks, TicksPerDollar ticks to the     *)
(* dollar, which represents exactly every product bank * max_risk * 0.5    *)
(* of a whole-dollar bankroll and a whole-percent risk fraction, and every *)
(* amount quantized to cents.  Probabilities, odds, EV and Kelly fractions *)
(* are exact rationals <<n, d>> with d > 0 in lowest terms; the inputs are *)
(* chosen among values for which the code's binary floating point agrees   *)
(* with the exact value after quantization to cents.                       *)
(***************************************************************************)
EXTENDS Integers, Sequences, FiniteSets, TLC

VARIABLES
    bank,        \* BnkRllBrn.bank (ticks)
    peak,        \* BnkRllBrn.peak (ticks)
    min_bank,    \* BnkRllBrn.min_bank (ticks)
    fib_streak,  \* BnkRllBrn.fib_streak
    stats,       \* BnkRllBrn._stats: [placed, total_ev]
    risk,        \* BnkRllBrn.risk: [max_risk, peak, drawdown]
    history,     \* BnkRllBrn.history: [buffer, maxlen]
    queue,       \* GlobalLogWriter.queue: records not yet taken by the worker
    calls,       \* number of engine calls made so far (bounded by MaxCalls)
    ret,         \* outcome of the last engine call, as its caller sees it
    writer,      \* GlobalLogWriter's worker: [alive, attempted, written]
    disk_ok,     \* whether the file system accepts opening and writing the log file
    inflight     \* staking calls in progress on other threads, each at its position

vars == <<bank, peak, min_bank, fib_streak, stats, risk, history, queue, calls, ret,
          writer, disk_ok, inflight>>

-----------------------------------------------------------------------------
(* Bounds of the model *)

MaxCalls == 3

\* StreakSpec: losing fib calls, and calls of any other kind
MaxStreakCalls == 13
MaxOtherCalls == 1

\* EdgeSpec: calls of ev_kelly, pure_kelly and update_bank
MaxEdgeCalls == 4

\* LedgerSpec: ledger capacities 1..MaxLedgerSize and appends to one ledger
MaxLedgerSize == 2
MaxAppends == 5

\* StorageSpec: staking calls on an engine whose ledger is one record short of full
MaxStorageCalls == 3

\* WriterSpec: calls of write() and of stop() on the log writer
MaxWrites == 3
MaxStops == 2

\* ConcSpec: concurrent flat_bet calls, and update_bank calls
MaxThreads == 2
MaxSettlements == 2

\* DispatchSpec: calls of bet and update_bank
MaxDispatchCalls == 2

\* MartingaleSpec: calls of martingale_bet and update_bank
MaxMartingaleCalls == 4

\* FlushSpec: appends to the ledger and calls of flush() from other threads
MaxFlushAppends == 4
MaxFlushes == 2

\* SequenceSpec: calls of reverse_labouchere_bet, and the longest sequence asked for
MaxSequenceCalls == 2
MaxNumBets == 6

\* SingletonSpec: engines constructed in the process
MaxEngines == 2

\* KellySpec: probabilities are the multiples of 1/KellyGrid in [0, 1]
KellyGrid == 10

-----------------------------------------------------------------------------
(* Exact arithmetic *)

TicksPerDollar == 200

Dollars(d) == d * TicksPerDollar

Abs(x) == IF x < 0 THEN -x ELSE x

Min(a, b) == IF a <= b THEN a ELSE b

Max(a, b) == IF a >= b THEN a ELSE b

RECURSIVE GCD(_, _)
GCD(a, b) == IF b = 0 THEN a ELSE GCD(b, a % b)

\* the rational n/d (d # 0) in lowest terms with a positive denominator
Rat(n, d) ==
    LET g == GCD(Abs(n), Abs(d))
        s == IF d < 0 THEN -1 ELSE 1
    IN  <<(s * n) \div g, (s * d) \div g>>

RInt(i) == <<i, 1>>
\* over the least common denominator, so that the products stay small
RAdd(a, b) ==
    LET g == GCD(a[2], b[2])
    IN  Rat(a[1] * (b[2] \div g) + b[1] * (a[2] \div g), (a[2] \div g) * b[2])
RSub(a, b) == RAdd(a, <<-b[1], b[2]>>)
\* cross-reduced first, so that the products stay small
RMul(a, b) ==
    LET g1 == GCD(Abs(a[1]), Abs(b[2]))
        g2 == GCD(Abs(b[1]), Abs(a[2]))
    IN  Rat((a[1] \div g1) * (b[1] \div g2), (a[2] \div g2) * (b[2] \div g1))
RDiv(a, b) == RMul(a, IF b[1] < 0 THEN <<-b[2], -b[1]>> ELSE <<b[2], b[1]>>)
RLeq(a, b) == a[1] * b[2] <= b[1] * a[2]
RLt(a, b) == a[1] * b[2] < b[1] * a[2]
RMin(a, b) == IF RLeq(a, b) THEN a ELSE b
RMax(a, b) == IF RLeq(b, a) THEN a ELSE b

RECURSIVE RPow(_, _)
RPow(a, k) == IF k = 0 THEN RInt(1) ELSE RMul(a, RPow(a, k - 1))

\* n/d rounded to the nearest integer, ties to even (Decimal's default
\* ROUND_HALF_EVEN, and round() of the built-in numbers)
RoundHalfEven(n, d) ==
    LET q == n \div d
        r == n % d
    IN  IF 2 * r < d THEN q
        ELSE IF 2 * r > d THEN q + 1
        ELSE IF q % 2 = 0 THEN q ELSE q + 1

\* n/d truncated toward zero: int(x)
Trunc(n, d) == IF n >= 0 THEN n \div d ELSE -((-n) \div d)

\* (bank * fraction).quantize(Decimal("0.01")), in ticks
QuantizeCents(bankv, f) ==
    LET ticksPerCent == TicksPerDollar \div 100
        cents == RMul(Rat(bankv, ticksPerCent), f)
    IN  ticksPerCent * RoundHalfEven(cents[1], cents[2])

\* a float amount of dollars as Decimal(str(x)), in ticks; the inputs keep it whole
DollarsToTicks(r) == (r[1] * TicksPerDollar) \div r[2]

-----------------------------------------------------------------------------
(* Odds and probabilities: OddsConverter, ProbabilityCalculator, MarketUtils *)

\* an odds argument: a Python int (American odds) or a Python float (decimal odds n/d)
IntOdds(a) == [t |-> "int", n |-> a, d |-> 1]
FloatOdds(n, d) == [t |-> "float", n |-> n, d |-> d]

\* the absent optional argument (true_p=None, p=None); no rational has denominator 0
None == <<0, 0>>

decimal_odds(o) ==
    IF o.t = "float" THEN Rat(o.n, o.d)
    ELSE IF o.n >= 100 THEN Rat(100 + o.n, 100)
    ELSE IF o.n <= -101 THEN Rat(Abs(o.n) + 100, Abs(o.n))
    ELSE RInt(o.n)

\* raises ZeroDivisionError for the float 1.0
american_odds_raises(o) == o.t = "float" /\ o.n = o.d

american_odds(o) ==
    IF o.t = "int" THEN o.n
    ELSE LET x == Rat(o.n, o.d)
         IN  IF RLt(RInt(2), x)
             THEN LET y == RMul(RSub(x, RInt(1)), RInt(100)) IN Trunc(y[1], y[2])
             ELSE LET y == RDiv(RInt(-100), RSub(x, RInt(1))) IN Trunc(y[1], y[2])

\* round(x, 3)
Round3(x) == Rat(RoundHalfEven(1000 * x[1], x[2]), 1000)

american_implied_win_prob(o) ==
    LET a == american_odds(o)
    IN  IF a > 0 THEN Round3(Rat(100, a + 100))
        ELSE Round3(Rat(Abs(a), Abs(a) + 100))

true_odds_ev(stake, profit, prob) ==
    RSub(RMul(profit, prob), RMul(stake, RSub(RInt(1), prob)))

RECURSIVE Pow10(_)
Pow10(k) == IF k = 0 THEN 1 ELSE 10 * Pow10(k - 1)

\* 1 / (10 ** (-elo_diff / 400) + 1), exact when elo_diff is a multiple of 400
elo_prob(elo_diff) ==
    LET k == elo_diff \div 400
    IN  IF k >= 0 THEN Rat(Pow10(k), Pow10(k) + 1) ELSE Rat(1, Pow10(-k) + 1)

break_even_pct(stake, payout) == RDiv(stake, payout)

vig(f_stake, f_payout, u_stake, u_payout) ==
    RSub(RAdd(break_even_pct(f_stake, f_payout), break_even_pct(u_stake, u_payout)), RInt(1))

bookmaker_margin(fav_odds, dog_odds) ==
    RSub(RAdd(RDiv(RInt(1), decimal_odds(fav_odds)), RDiv(RInt(1), decimal_odds(dog_odds))),
         RInt(1))

-----------------------------------------------------------------------------
(* DynamicRiskManager; max_risk is a whole number of percent *)

RiskManager(max_risk_pct) ==
    [max_risk |-> Min(100, Max(1, max_risk_pct)), peak |-> 0, drawdown |-> RInt(0)]

update(r, bankv) ==
    LET pk == Max(r.peak, bankv)
    IN  [r EXCEPT !.peak = pk,
                  !.drawdown = IF pk > 0 THEN Rat(pk - bankv, pk) ELSE RInt(0)]

DrawdownCut(r) == RLt(Rat(20, 100), r.drawdown)

\* RISK_PRESETS: the band boundaries of each profile, as fractions of the bankroll
RISK_PRESETS ==
    [balanced |-> [low |-> Rat(5, 100), med |-> Rat(15, 100), high |-> Rat(30, 100)],
     aggressive |-> [low |-> Rat(10, 100), med |-> Rat(25, 100), high |-> Rat(50, 100)]]

\* level with strict comparisons: a boundary belongs to the band above it
level_strict(base, r, pct) ==
    LET adj == RMul(pct, RAdd(RInt(1), RMul(r.drawdown, RInt(2))))
    IN  IF RLt(adj, base.low) THEN "low"
        ELSE IF RLt(adj, base.med) THEN "medium"
        ELSE IF RLt(adj, base.high) THEN "high"
        ELSE "insane"

\* DynamicRiskManager.level; base is the manager's self.base
level(base, r, pct) ==
    LET adj == RMul(pct, RAdd(RInt(1), RMul(r.drawdown, RInt(2))))
    IN  IF RLeq(adj, base.low) THEN "low"
        ELSE IF RLeq(adj, base.med) THEN "medium"
        ELSE IF RLeq(adj, base.high) THEN "high"
        ELSE "insane"

\* cap without its min(amount, cap): the proposed amount goes through
cap_unlimited(r, amount, bankv) ==
    LET full == (bankv * r.max_risk) \div 100
        ceiling == IF DrawdownCut(r) THEN full \div 2 ELSE full
    IN  [amount |-> amount, bank |-> bankv, drawdown |-> r.drawdown,
         max_risk |-> r.max_risk, ceiling |-> ceiling,
         raised |-> DrawdownCut(r),
         returns |-> IF DrawdownCut(r) THEN <<>> ELSE <<amount>>]

\* One call of cap: its arguments, the manager's state, the ceiling it computed
\* and what it returned.  In the drawdown branch the ceiling is halved and the
\* next statement, logging.getLogger(...), raises NameError (risk.py imports no
\* logging): returns is then empty, otherwise it holds the one value returned.
cap(r, amount, bankv) ==
    LET full == (bankv * r.max_risk) \div 100
        ceiling == IF DrawdownCut(r) THEN full \div 2 ELSE full
    IN  [amount |-> amount, bank |-> bankv, drawdown |-> r.drawdown,
         max_risk |-> r.max_risk, ceiling |-> ceiling,
         raised |-> DrawdownCut(r),
         returns |-> IF DrawdownCut(r) THEN <<>> ELSE <<Min(amount, ceiling)>>]

-----------------------------------------------------------------------------
(* Wager and HistoryBuffer *)

Wager(strategy, amount, pct_bank, ev) ==
    [strategy |-> strategy, amount |-> amount, pct_bank |-> pct_bank, ev |-> ev]

\* file: the lines the ledger has written to its flush file
HistoryBuffer(max_size, flush_file) ==
    [buffer |-> <<>>, maxlen |-> max_size, flush_file |-> flush_file, file |-> <<>>]

\* _flush writing the records and keeping them in the buffer
flush_keep(h, io_ok) ==
    IF ~h.flush_file THEN h
    ELSE IF io_ok THEN [h EXCEPT !.file = @ \o h.buffer]
    ELSE h

\* HistoryBuffer._flush; io_ok: whether opening the file succeeds.  A failure
\* is swallowed by the handler with the buffer as it was.
flush(h, io_ok) ==
    IF ~h.flush_file THEN h
    ELSE IF io_ok THEN [h EXCEPT !.file = @ \o h.buffer, !.buffer = <<>>]
    ELSE h

\* the two halves of a successful _flush: the loop that writes list(self.buffer)
\* to the file, and self.buffer.clear()
flush_write(h) == [h EXCEPT !.file = @ \o h.buffer]
flush_clear(h) == [h EXCEPT !.buffer = <<>>]

\* HistoryBuffer.append on a deque(maxlen): a full deque drops its oldest element
append(h, w, io_ok) ==
    LET buf == IF h.maxlen = 0 THEN <<>>
               ELSE IF Len(h.buffer) = h.maxlen THEN Append(Tail(h.buffer), w)
               ELSE Append(h.buffer, w)
        h1 == [h EXCEPT !.buffer = buf]
    IN  IF Len(buf) = h.maxlen /\ h.flush_file THEN flush(h1, io_ok) ELSE h1

-----------------------------------------------------------------------------
(* GlobalLogWriter: the singleton's worker thread.  attempted lists the records *)
(* the worker has tried to write and written the lines that reached the file,  *)
(* both since the initial state.                                                *)

GlobalLogWriter == [alive |-> TRUE, attempted |-> <<>>, written |-> <<>>]

\* GlobalLogWriter(path) once the instance exists: __new__ returns it as it is,
\* with the thread it was given at first, running or ended
GlobalLogWriterAgain(w) == w

\* stop() puts None on the queue
Sentinel == [strategy |-> "None"]

\* _run with a worker that a failed write ends
_run_stops(w, data, io_ok) ==
    IF data = Sentinel THEN [w EXCEPT !.alive = FALSE]
    ELSE [w EXCEPT !.attempted = Append(@, data),
                   !.written = IF io_ok THEN Append(@, data) ELSE @,
                   !.alive = io_ok]

\* one iteration of _run with data taken off the queue: None ends the thread;
\* a record is written, and a failure to open or write is logged and swallowed
_run(w, data, io_ok) ==
    IF data = Sentinel THEN [w EXCEPT !.alive = FALSE]
    ELSE [w EXCEPT !.attempted = Append(@, data),
                   !.written = IF io_ok THEN Append(@, data) ELSE @]

-----------------------------------------------------------------------------
(* BnkRllBrn: the engine's state as one value, so that a method is a function *)
(* from state to state and a loop threads the state through its iterations    *)

Eng ==
    [bank |-> bank, peak |-> peak, min_bank |-> min_bank, fib_streak |-> fib_streak,
     stats |-> stats, risk |-> risk, history |-> history, queue |-> queue]

HistoryMaxSize == 10000

BnkRllBrn(bankroll, max_risk_pct, min_bankroll) ==
    [bank |-> Dollars(bankroll), peak |-> Dollars(bankroll),
     min_bank |-> Dollars(min_bankroll), fib_streak |-> 0,
     stats |-> [placed |-> 0, total_ev |-> RInt(0)],
     risk |-> RiskManager(max_risk_pct),
     history |-> HistoryBuffer(HistoryMaxSize, TRUE),
     queue |-> <<>>]

\* _check_bank raises ValueError
check_bank_raises(e) == e.bank < e.min_bank

\* _record debiting the stake from the bankroll as it records the wager
_record_debit(e, wager, won, io_ok) ==
    LET placed == wager.amount > 0
        st == IF placed
              THEN [placed |-> e.stats.placed + 1,
                    total_ev |-> RAdd(e.stats.total_ev, RMul(RInt(wager.amount), wager.ev))]
              ELSE e.stats
    IN  [e EXCEPT !.bank = e.bank - wager.amount,
                  !.history = append(e.history, wager, io_ok),
                  !.stats = st,
                  !.peak = IF placed THEN Max(e.peak, e.bank) ELSE e.peak,
                  !.fib_streak = IF placed /\ won THEN 0 ELSE e.fib_streak,
                  !.risk = update(e.risk, e.bank),
                  !.queue = Append(e.queue, wager)]

\* _record without its `if wager.amount > 0`: every Wager counts as placed
_record_counts_all(e, wager, won, io_ok) ==
    LET st == [placed |-> e.stats.placed + 1,
               total_ev |-> RAdd(e.stats.total_ev, RMul(RInt(wager.amount), wager.ev))]
    IN  [e EXCEPT !.history = append(e.history, wager, io_ok),
                  !.stats = st,
                  !.peak = Max(e.peak, e.bank),
                  !.fib_streak = IF won THEN 0 ELSE e.fib_streak,
                  !.risk = update(e.risk, e.bank),
                  !.queue = Append(e.queue, wager)]

_record(e, wager, won, io_ok) ==
    LET placed == wager.amount > 0
        st == IF placed
              THEN [placed |-> e.stats.placed + 1,
                    total_ev |-> RAdd(e.stats.total_ev, RMul(RInt(wager.amount), wager.ev))]
              ELSE e.stats
    IN  [e EXCEPT !.history = append(e.history, wager, io_ok),
                  !.stats = st,
                  !.peak = IF placed THEN Max(e.peak, e.bank) ELSE e.peak,
                  !.fib_streak = IF placed /\ won THEN 0 ELSE e.fib_streak,
                  !.risk = update(e.risk, e.bank),
                  !.queue = Append(e.queue, wager)]

\* _kelly_core without its `if ev <= 0` gate
_kelly_core_ungated(p, odds, true_p) ==
    LET dec == decimal_odds(odds)
        profit == RSub(dec, RInt(1))
        use_prob == IF true_p # None THEN true_p ELSE p
        ev == true_odds_ev(RInt(1), profit, use_prob)
        b == RSub(dec, RInt(1))
        q == RSub(RInt(1), p)
    IN  [f |-> RDiv(RSub(RMul(b, p), q), b), ev |-> ev]

_kelly_core(p, odds, true_p) ==
    LET dec == decimal_odds(odds)
        profit == RSub(dec, RInt(1))
        use_prob == IF true_p # None THEN true_p ELSE p
        ev == true_odds_ev(RInt(1), profit, use_prob)
        b == RSub(dec, RInt(1))
        q == RSub(RInt(1), p)
    IN  IF RLeq(ev, RInt(0)) THEN [f |-> RInt(0), ev |-> ev]
        ELSE [f |-> RDiv(RSub(RMul(b, p), q), b), ev |-> ev]

-----------------------------------------------------------------------------
(* Strategies.  Each maps the engine state e and its arguments to an outcome: *)
(* the state the call leaves, how it ended ("ok" or the exception raised),    *)
(* the Wagers it returned and the cap calls it made.  io_ok is the outcome of *)
(* the file write of a ledger overflow flush, should the call trigger one.    *)

Out(e, status, wagers, caps) ==
    [e |-> e, status |-> status, wagers |-> wagers, caps |-> caps]

\* amount = self.risk.cap(raw, self.bank); pct = float(amount / self.bank);
\* wager = Wager(...); self._record(wager); return wager
StakeCapped(e, strategy, raw, io_ok) ==
    LET c == cap(e.risk, raw, e.bank)
    IN  IF c.raised THEN Out(e, "NameError", <<>>, <<c>>)
        ELSE IF e.bank = 0 THEN Out(e, "DivisionByZero", <<>>, <<c>>)
        ELSE LET w == Wager(strategy, c.returns[1], Rat(c.returns[1], e.bank), RInt(0))
             IN  Out(_record(e, w, FALSE, io_ok), "ok", <<w>>, <<c>>)

ev_kelly(e, p, odds, aggression, true_p, io_ok) ==
    IF check_bank_raises(e) THEN Out(e, "InsufficientBankroll", <<>>, <<>>)
    ELSE
    LET k == _kelly_core(p, odds, true_p)
    IN  IF RLeq(k.ev, Rat(15, 1000))
        THEN LET w == Wager("EV-Kelly", 0, RInt(0), k.ev)
             IN  Out(_record(e, w, FALSE, io_ok), "ok", <<w>>, <<>>)
        ELSE LET weight == RAdd(RInt(1), RMul(RPow(k.ev, aggression), RInt(8)))
                 weighted_f == RMul(k.f, weight)
                 pct == RMin(weighted_f, RInt(1))
                 c == cap(e.risk, QuantizeCents(e.bank, pct), e.bank)
             IN  IF c.raised THEN Out(e, "NameError", <<>>, <<c>>)
                 ELSE LET w == Wager("EV-Kelly", c.returns[1], pct, k.ev)
                      IN  Out(_record(e, w, FALSE, io_ok), "ok", <<w>>, <<c>>)

pure_kelly(e, p, odds, true_p, io_ok) ==
    IF check_bank_raises(e) THEN Out(e, "InsufficientBankroll", <<>>, <<>>)
    ELSE
    LET k == _kelly_core(p, odds, true_p)
    IN  IF RLeq(k.ev, RInt(0))
        THEN LET w == Wager("pure_kelly", 0, RInt(0), k.ev)
             IN  Out(_record(e, w, FALSE, io_ok), "ok", <<w>>, <<>>)
        ELSE LET pct == RMin(k.f, RInt(1))
                 c == cap(e.risk, QuantizeCents(e.bank, pct), e.bank)
             IN  IF c.raised THEN Out(e, "NameError", <<>>, <<c>>)
                 ELSE LET w == Wager("pure_kelly", c.returns[1], pct, k.ev)
                      IN  Out(_record(e, w, FALSE, io_ok), "ok", <<w>>, <<c>>)

\* a, b = 1, 1; for _ in range(n): a, b = b, a + b
RECURSIVE FibPair(_)
FibPair(n) ==
    IF n = 0 THEN <<1, 1>>
    ELSE LET ab == FibPair(n - 1) IN <<ab[2], ab[1] + ab[2]>>

\* fib advancing the streak on a call the probability gate skipped
fib_counts_skips(e, odds, won_last, unit, p, io_ok) ==
    LET s1 == IF won_last THEN 0 ELSE e.fib_streak
        reset_forced == s1 > 12
        s2 == IF reset_forced THEN 0 ELSE s1
        e2 == [e EXCEPT !.fib_streak = s2]
    IN  IF p # None /\ american_odds_raises(odds)
        THEN Out(e2, "ZeroDivisionError", <<>>, <<>>)
        ELSE
        LET skip_fib == p # None /\ RLt(p, american_implied_win_prob(odds))
        IN  IF skip_fib
            THEN LET w == Wager("fib", 0, RInt(0), RInt(0))
                     e3 == _record(e2, w, FALSE, io_ok)
                 IN  Out([e3 EXCEPT !.fib_streak = e3.fib_streak + 1], "ok", <<w>>, <<>>)
            ELSE
            LET b == FibPair(s2)[2]
                raw == QuantizeCents(e2.bank, RMul(unit, RInt(b)))
                c == cap(e2.risk, raw, e2.bank)
            IN  IF c.raised THEN Out(e2, "NameError", <<>>, <<c>>)
                ELSE
                LET amount == c.returns[1]
                    pct == IF amount > 0 THEN Rat(amount, e2.bank) ELSE RInt(0)
                    w == Wager("fib", amount, pct, RInt(0))
                    e3 == _record(e2, w, FALSE, io_ok)
                    e4 == IF ~won_last /\ ~reset_forced
                          THEN [e3 EXCEPT !.fib_streak = e3.fib_streak + 1]
                          ELSE e3
                IN  Out(e4, "ok", <<w>>, <<c>>)

fib(e, odds, won_last, unit, p, io_ok) ==
    LET s1 == IF won_last THEN 0 ELSE e.fib_streak
        reset_forced == s1 > 12
        s2 == IF reset_forced THEN 0 ELSE s1
        e2 == [e EXCEPT !.fib_streak = s2]
    IN  IF p # None /\ american_odds_raises(odds)
        THEN Out(e2, "ZeroDivisionError", <<>>, <<>>)
        ELSE
        LET skip_fib == p # None /\ RLt(p, american_implied_win_prob(odds))
        IN  IF skip_fib
            THEN LET w == Wager("fib", 0, RInt(0), RInt(0))
                 IN  Out(_record(e2, w, FALSE, io_ok), "ok", <<w>>, <<>>)
            ELSE
            LET b == FibPair(s2)[2]
                raw == QuantizeCents(e2.bank, RMul(unit, RInt(b)))
                c == cap(e2.risk, raw, e2.bank)
            IN  IF c.raised THEN Out(e2, "NameError", <<>>, <<c>>)
                ELSE
                LET amount == c.returns[1]
                    pct == IF amount > 0 THEN Rat(amount, e2.bank) ELSE RInt(0)
                    w == Wager("fib", amount, pct, RInt(0))
                    e3 == _record(e2, w, FALSE, io_ok)
                    e4 == IF ~won_last /\ ~reset_forced
                          THEN [e3 EXCEPT !.fib_streak = e3.fib_streak + 1]
                          ELSE e3
                IN  Out(e4, "ok", <<w>>, <<c>>)

elo_kelly(e, elo_diff, odds, aggression, true_p, io_ok) ==
    ev_kelly(e, elo_prob(elo_diff), odds, aggression, true_p, io_ok)

\* the legs' combined odds only label the Wager; juice is the constant 0.0
parlay_bet(e, odds_list, base_pct, io_ok) ==
    IF check_bank_raises(e) THEN Out(e, "InsufficientBankroll", <<>>, <<>>)
    ELSE StakeCapped(e, "parlay", QuantizeCents(e.bank, base_pct), io_ok)

margin_bet(e, fav_odds, dog_odds, base_pct, io_ok) ==
    IF check_bank_raises(e) THEN Out(e, "InsufficientBankroll", <<>>, <<>>)
    ELSE IF decimal_odds(fav_odds)[1] = 0 \/ decimal_odds(dog_odds)[1] = 0
    THEN Out(e, "ZeroDivisionError", <<>>, <<>>)
    ELSE
    LET margin == bookmaker_margin(fav_odds, dog_odds)
        adj_pct == RDiv(base_pct, RMax(RAdd(margin, Rat(1, 100)), Rat(1, 100)))
    IN  StakeCapped(e, "margin", QuantizeCents(e.bank, adj_pct), io_ok)

\* odds: one odds value, or a market tuple (t = "tuple"), whose branch calls the
\* undefined module-level name bookmaker_margin
_vig_adjusted_bet(e, odds, base_pct, io_ok) ==
    IF check_bank_raises(e) THEN Out(e, "InsufficientBankroll", <<>>, <<>>)
    ELSE IF odds.t = "tuple" THEN Out(e, "NameError", <<>>, <<>>)
    ELSE
    LET dec_odds == decimal_odds(odds)
        f_payout == dec_odds
        u_american ==
            IF RLt(dec_odds, RInt(2))
            THEN LET y == RMul(RInt(100), RSub(dec_odds, RInt(1))) IN Trunc(y[1], y[2])
            ELSE LET y == RDiv(RMul(RInt(-100), dec_odds), RSub(dec_odds, RInt(1)))
                 IN  Trunc(y[1], y[2])
        u_dec == decimal_odds(IntOdds(u_american))
        u_payout == u_dec
    IN  IF f_payout[1] = 0 \/ u_payout[1] = 0
        THEN Out(e, "ZeroDivisionError", <<>>, <<>>)
        ELSE
        LET juice == vig(RInt(1), f_payout, RInt(1), u_payout)
            adj_pct == RMul(base_pct, RSub(RInt(1), RMax(juice, RInt(0))))
        IN  StakeCapped(e, "vig", QuantizeCents(e.bank, adj_pct), io_ok)

\* the stakes of a sequence, one after the other: cap, Wager, _record, collect;
\* an exception ends the loop with the Wagers recorded so far kept in the state
RECURSIVE StakeSequence(_, _, _, _, _, _)
StakeSequence(e, strategy, sequence, wagers, caps, io_ok) ==
    IF sequence = <<>> THEN Out(e, "ok", wagers, caps)
    ELSE LET o == StakeCapped(e, strategy, DollarsToTicks(Head(sequence)), io_ok)
         IN  IF o.status # "ok" THEN Out(o.e, o.status, <<>>, caps \o o.caps)
             ELSE StakeSequence(o.e, strategy, Tail(sequence),
                                wagers \o o.wagers, caps \o o.caps, io_ok)

Scaled(target, ratios) == [i \in 1..Len(ratios) |-> RMul(target, ratios[i])]

five_bet_labouchere_bankroll(target) ==
    Scaled(target, <<Rat(1, 10), Rat(2, 10), Rat(4, 10), Rat(2, 10), Rat(1, 10)>>)

labouchere_bet(e, target, io_ok) ==
    IF check_bank_raises(e) THEN Out(e, "InsufficientBankroll", <<>>, <<>>)
    ELSE StakeSequence(e, "labouchere", five_bet_labouchere_bankroll(target),
                       <<>>, <<>>, io_ok)

martingale_bet(e, base_bet, consecutive_losses, multiplier, io_ok) ==
    IF check_bank_raises(e) THEN Out(e, "InsufficientBankroll", <<>>, <<>>)
    ELSE LET bet_amount == RMul(base_bet, RPow(multiplier, consecutive_losses))
         IN  StakeCapped(e, "martingale", DollarsToTicks(bet_amount), io_ok)

dalembert_bet(e, base_bet, wins, losses, io_ok) ==
    IF check_bank_raises(e) THEN Out(e, "InsufficientBankroll", <<>>, <<>>)
    ELSE LET unit == RMul(base_bet, Rat(1, 10))
             raw == RSub(RAdd(base_bet, RMul(RInt(losses), unit)), RMul(RInt(wins), unit))
             bet_amount == RMax(raw, RMul(base_bet, Rat(1, 10)))
         IN  StakeCapped(e, "dalembert", DollarsToTicks(bet_amount), io_ok)

\* s[-2::-1] and s[-1::-1]: s without its last element, reversed; s reversed
Reversed(s) == [i \in 1..Len(s) |-> s[Len(s) + 1 - i]]
ButLast(s) == IF s = <<>> THEN <<>> ELSE SubSeq(s, 1, Len(s) - 1)

reverse_labouchere_sequence(target, num_bets) ==
    LET mid_point == num_bets \div 2
        rising == [i \in 1..(mid_point + 1) |-> Rat(i, 10)]
        ratios == IF num_bets = 5
                  THEN <<Rat(2, 10), Rat(3, 10), Rat(5, 10), Rat(3, 10), Rat(2, 10)>>
                  ELSE IF num_bets % 2 = 0 THEN rising \o Reversed(ButLast(rising))
                  ELSE rising \o Reversed(rising)
    IN  Scaled(target, ratios)

reverse_labouchere_bet(e, target, num_bets, io_ok) ==
    IF check_bank_raises(e) THEN Out(e, "InsufficientBankroll", <<>>, <<>>)
    ELSE StakeSequence(e, "reverse_labouchere",
                       reverse_labouchere_sequence(target, num_bets), <<>>, <<>>, io_ok)

flat_bet(e, fixed_amount, io_ok) ==
    IF check_bank_raises(e) THEN Out(e, "InsufficientBankroll", <<>>, <<>>)
    ELSE StakeCapped(e, "flat", DollarsToTicks(fixed_amount), io_ok)

\* float(self.bank) * bet_pct
percentage_bet(e, bet_pct, io_ok) ==
    IF check_bank_raises(e) THEN Out(e, "InsufficientBankroll", <<>>, <<>>)
    ELSE LET bet_amount == RMul(Rat(e.bank, TicksPerDollar), bet_pct)
         IN  StakeCapped(e, "percentage", DollarsToTicks(bet_amount), io_ok)

fixed_unit_bet(e, unit_size, num_units, io_ok) ==
    IF check_bank_raises(e) THEN Out(e, "InsufficientBankroll", <<>>, <<>>)
    ELSE LET bet_amount == RMul(unit_size, RInt(num_units))
         IN  StakeCapped(e, "fixed_unit", DollarsToTicks(bet_amount), io_ok)

\* the keys of bet's dispatch table
Strategies ==
    {"ev", "fib", "vig", "pure_kelly", "elo_kelly", "parlay_bet", "margin_bet",
     "labouchere", "martingale", "dalembert", "reverse_labouchere", "flat",
     "percentage", "fixed_unit"}

\* bet without its `if strategy not in strategies`: an unknown name stakes nothing
bet_unchecked(e, strategy, kw, io_ok) ==
    IF strategy \notin Strategies THEN flat_bet(e, RInt(0), io_ok)
    ELSE CASE strategy = "ev" -> ev_kelly(e, kw.p, kw.o, kw.agg, kw.true_p, io_ok)
           [] strategy = "fib" -> fib(e, kw.o, kw.won, kw.unit, kw.p, io_ok)
           [] strategy = "vig" -> _vig_adjusted_bet(e, kw.odds, kw.base_pct, io_ok)
           [] strategy = "pure_kelly" -> pure_kelly(e, kw.p, kw.o, kw.true_p, io_ok)
           [] strategy = "elo_kelly" ->
                  elo_kelly(e, kw.elo_diff, kw.o, kw.agg, kw.true_p, io_ok)
           [] strategy = "parlay_bet" -> parlay_bet(e, kw.odds_list, kw.base_pct, io_ok)
           [] strategy = "margin_bet" ->
                  margin_bet(e, kw.fav_odds, kw.dog_odds, kw.base_pct, io_ok)
           [] strategy = "labouchere" -> labouchere_bet(e, kw.target, io_ok)
           [] strategy = "martingale" ->
                  martingale_bet(e, kw.base_bet, kw.losses, kw.multiplier, io_ok)
           [] strategy = "dalembert" ->
                  dalembert_bet(e, kw.base_bet, kw.wins, kw.losses, io_ok)
           [] strategy = "reverse_labouchere" ->
                  reverse_labouchere_bet(e, kw.target, kw.num_bets, io_ok)
           [] strategy = "flat" -> flat_bet(e, kw.fixed_amount, io_ok)
           [] strategy = "percentage" -> percentage_bet(e, kw.bet_pct, io_ok)
           [] strategy = "fixed_unit" ->
                  fixed_unit_bet(e, kw.unit_size, kw.num_units, io_ok)

\* kw: the keyword arguments, with the defaults bet fills in
bet(e, strategy, kw, io_ok) ==
    IF strategy \notin Strategies THEN Out(e, "InvalidStrategy", <<>>, <<>>)
    ELSE CASE strategy = "ev" -> ev_kelly(e, kw.p, kw.o, kw.agg, kw.true_p, io_ok)
           [] strategy = "fib" -> fib(e, kw.o, kw.won, kw.unit, kw.p, io_ok)
           [] strategy = "vig" -> _vig_adjusted_bet(e, kw.odds, kw.base_pct, io_ok)
           [] strategy = "pure_kelly" -> pure_kelly(e, kw.p, kw.o, kw.true_p, io_ok)
           [] strategy = "elo_kelly" ->
                  elo_kelly(e, kw.elo_diff, kw.o, kw.agg, kw.true_p, io_ok)
           [] strategy = "parlay_bet" -> parlay_bet(e, kw.odds_list, kw.base_pct, io_ok)
           [] strategy = "margin_bet" ->
                  margin_bet(e, kw.fav_odds, kw.dog_odds, kw.base_pct, io_ok)
           [] strategy = "labouchere" -> labouchere_bet(e, kw.target, io_ok)
           [] strategy = "martingale" ->
                  martingale_bet(e, kw.base_bet, kw.losses, kw.multiplier, io_ok)
           [] strategy = "dalembert" ->
                  dalembert_bet(e, kw.base_bet, kw.wins, kw.losses, io_ok)
           [] strategy = "reverse_labouchere" ->
                  reverse_labouchere_bet(e, kw.target, kw.num_bets, io_ok)
           [] strategy = "flat" -> flat_bet(e, kw.fixed_amount, io_ok)
           [] strategy = "percentage" -> percentage_bet(e, kw.bet_pct, io_ok)
           [] strategy = "fixed_unit" ->
                  fixed_unit_bet(e, kw.unit_size, kw.num_units, io_ok)

\* the ValueError bet raises for a name outside its table: the names its
\* message lists, ", ".join(strategies.keys()), in the table's order
StrategyKeys ==
    <<"ev", "fib", "vig", "pure_kelly", "elo_kelly", "parlay_bet", "margin_bet",
      "labouchere", "martingale", "dalembert", "reverse_labouchere", "flat",
      "percentage", "fixed_unit">>

bet_error(strategy) == IF strategy \notin Strategies THEN StrategyKeys ELSE <<>>

update_bank(e, new, won) ==
    [e EXCEPT !.bank = new, !.fib_streak = IF won THEN 0 ELSE e.fib_streak]

-----------------------------------------------------------------------------
(* The arguments the calls are made with *)

\* constructor arguments: bankroll and min_bankroll in dollars, max_risk_pct in percent
BankrollInputs == {1000}
MinBankrollInputs == {100}
MaxRiskInputs == {35}

\* update_bank(new), in dollars
BankInputs == {-50, 50, 500, 1000}

PInputs == {Rat(3, 10), Rat(3, 5)}
TruePInputs == {None, Rat(3, 5)}
AggressionInputs == {2}
KellyOdds == {FloatOdds(2, 1)}
EloInputs == {400}
EloOdds == {IntOdds(-110)}
FibOdds == {IntOdds(-110)}
FibPInputs == {None, Rat(3, 10)}
UnitInputs == {Rat(1, 100)}
BasePctInputs == {Rat(2, 100)}
MarginOdds == {<<FloatOdds(3, 2), FloatOdds(2, 1)>>}
VigOdds == {FloatOdds(2, 1)}
TargetInputs == {RInt(100)}
NumBetsInputs == {2}
BaseBetInputs == {RInt(10)}
LossInputs == {3}
WinInputs == {0}
MultiplierInputs == {RInt(2)}
AmountInputs == {RInt(-5), RInt(400)}
BetPctInputs == {Rat(2, 100)}
UnitSizeInputs == {RInt(10)}
NumUnitsInputs == {1}

\* the keyword arguments bet is called with, per strategy name
Kwargs(strategy) ==
    CASE strategy = "ev" ->
             [p : PInputs, o : KellyOdds, agg : AggressionInputs, true_p : {None}]
      [] strategy = "fib" ->
             [o : FibOdds, won : BOOLEAN, unit : UnitInputs, p : FibPInputs]
      [] strategy = "vig" -> [odds : VigOdds, base_pct : BasePctInputs]
      [] strategy = "pure_kelly" -> [p : PInputs, o : KellyOdds, true_p : TruePInputs]
      [] strategy = "elo_kelly" ->
             [elo_diff : EloInputs, o : EloOdds, agg : AggressionInputs, true_p : {None}]
      [] strategy = "parlay_bet" -> [odds_list : {<<>>}, base_pct : BasePctInputs]
      [] strategy = "margin_bet" ->
             {[fav_odds |-> m[1], dog_odds |-> m[2], base_pct |-> b] :
                  m \in MarginOdds, b \in BasePctInputs}
      [] strategy = "labouchere" -> [target : TargetInputs]
      [] strategy = "martingale" ->
             [base_bet : BaseBetInputs, losses : LossInputs, multiplier : MultiplierInputs]
      [] strategy = "dalembert" ->
             [base_bet : BaseBetInputs, wins : WinInputs, losses : LossInputs]
      [] strategy = "reverse_labouchere" -> [target : TargetInputs, num_bets : NumBetsInputs]
      [] strategy = "flat" -> [fixed_amount : AmountInputs]
      [] strategy = "percentage" -> [bet_pct : BetPctInputs]
      [] strategy = "fixed_unit" -> [unit_size : UnitSizeInputs, num_units : NumUnitsInputs]
      [] OTHER -> {[none |-> TRUE]}

\* the names bet is called with: a Kelly, a streak, a sequence and a fixed-stake
\* strategy of its table, and a name the table does not hold
BetNames == {"ev", "fib", "labouchere", "flat", "kelly"}

\* the outcomes of a ledger flush's file write that a call can meet
IoOutcomes ==
    IF history.flush_file /\ Len(history.buffer) + 5 >= history.maxlen
    THEN BOOLEAN ELSE {TRUE}

-----------------------------------------------------------------------------
(* Actions: one per public operation, each a whole call *)

\* A call is explored while the bound on calls allows one more and the log
\* worker has drained the queue: the worker touches nothing but the queue, so
\* the engine reaches the same states under every other interleaving.
CallEnabled == calls < MaxCalls /\ queue = <<>>

\* the call op(args) ends with outcome o; ret keeps what the caller passed and
\* got, with the balance and the risk manager's peak the call started from
Call(op, args, o) ==
    /\ calls' = calls + 1
    /\ bank' = o.e.bank
    /\ peak' = o.e.peak
    /\ min_bank' = o.e.min_bank
    /\ fib_streak' = o.e.fib_streak
    /\ stats' = o.e.stats
    /\ risk' = o.e.risk
    /\ history' = o.e.history
    /\ queue' = o.e.queue
    /\ ret' = [op |-> op, args |-> args, status |-> o.status, wagers |-> o.wagers,
               caps |-> o.caps, bank |-> bank, peak |-> risk.peak]
    /\ UNCHANGED <<writer, disk_ok, inflight>>

EvKelly ==
    /\ CallEnabled
    /\ \E p \in PInputs, o \in KellyOdds, a \in AggressionInputs, io \in IoOutcomes :
            Call("ev", <<>>, ev_kelly(Eng, p, o, a, None, io))

PureKelly ==
    /\ CallEnabled
    /\ \E p \in PInputs, o \in KellyOdds, tp \in TruePInputs, io \in IoOutcomes :
            Call("pure_kelly", <<>>, pure_kelly(Eng, p, o, tp, io))

Fib ==
    /\ CallEnabled
    /\ \E o \in FibOdds, won \in BOOLEAN, u \in UnitInputs, p \in FibPInputs,
           io \in IoOutcomes :
            Call("fib", <<>>, fib(Eng, o, won, u, p, io))

EloKelly ==
    /\ CallEnabled
    /\ \E d \in EloInputs, o \in EloOdds, a \in AggressionInputs, io \in IoOutcomes :
            Call("elo_kelly", <<>>, elo_kelly(Eng, d, o, a, None, io))

ParlayBet ==
    /\ CallEnabled
    /\ \E b \in BasePctInputs, io \in IoOutcomes :
            Call("parlay_bet", <<>>, parlay_bet(Eng, <<>>, b, io))

MarginBet ==
    /\ CallEnabled
    /\ \E m \in MarginOdds, b \in BasePctInputs, io \in IoOutcomes :
            Call("margin_bet", <<>>, margin_bet(Eng, m[1], m[2], b, io))

VigAdjustedBet ==
    /\ CallEnabled
    /\ \E o \in VigOdds, b \in BasePctInputs, io \in IoOutcomes :
            Call("vig", <<>>, _vig_adjusted_bet(Eng, o, b, io))

LabouchereBet ==
    /\ CallEnabled
    /\ \E t \in TargetInputs, io \in IoOutcomes :
            Call("labouchere", <<>>, labouchere_bet(Eng, t, io))

MartingaleBet ==
    /\ CallEnabled
    /\ \E b \in BaseBetInputs, l \in LossInputs, m \in MultiplierInputs, io \in IoOutcomes :
            Call("martingale", <<>>, martingale_bet(Eng, b, l, m, io))

DalembertBet ==
    /\ CallEnabled
    /\ \E b \in BaseBetInputs, w \in WinInputs, l \in LossInputs, io \in IoOutcomes :
            Call("dalembert", <<>>, dalembert_bet(Eng, b, w, l, io))

ReverseLabouchereBet ==
    /\ CallEnabled
    /\ \E t \in TargetInputs, n \in NumBetsInputs, io \in IoOutcomes :
            Call("reverse_labouchere", <<>>, reverse_labouchere_bet(Eng, t, n, io))

FlatBet ==
    /\ CallEnabled
    /\ \E a \in AmountInputs, io \in IoOutcomes :
            Call("flat", <<>>, flat_bet(Eng, a, io))

PercentageBet ==
    /\ CallEnabled
    /\ \E b \in BetPctInputs, io \in IoOutcomes :
            Call("percentage", <<>>, percentage_bet(Eng, b, io))

FixedUnitBet ==
    /\ CallEnabled
    /\ \E u \in UnitSizeInputs, n \in NumUnitsInputs, io \in IoOutcomes :
            Call("fixed_unit", <<>>, fixed_unit_bet(Eng, u, n, io))

\* bet(strategy, **kwargs): op is the table's key, "bet" when the name is unknown
Bet ==
    /\ CallEnabled
    /\ \E s \in BetNames, io \in IoOutcomes :
            \E kw \in Kwargs(s) :
                Call(IF s \in Strategies THEN s ELSE "bet", <<>>, bet(Eng, s, kw, io))

UpdateBank ==
    /\ CallEnabled
    /\ \E new \in BankInputs, won \in BOOLEAN :
            Call("update_bank", [new |-> Dollars(new)],
                 Out(update_bank(Eng, Dollars(new), won), "ok", <<>>, <<>>))

\* GlobalLogWriter._run: the worker takes the next record off the queue
WriterRun ==
    /\ writer.alive
    /\ queue # <<>>
    /\ queue' = Tail(queue)
    /\ writer' = _run(writer, Head(queue), disk_ok)
    /\ UNCHANGED <<bank, peak, min_bank, fib_streak, stats, risk, history, calls, ret,
                   disk_ok, inflight>>

Init ==
    \E b \in BankrollInputs, m \in MinBankrollInputs, r \in MaxRiskInputs :
        LET e == BnkRllBrn(b, r, m)
        IN  /\ bank = e.bank
            /\ peak = e.peak
            /\ min_bank = e.min_bank
            /\ fib_streak = e.fib_streak
            /\ stats = e.stats
            /\ risk = e.risk
            /\ history = e.history
            /\ queue = e.queue
            /\ calls = 0
            /\ ret = [op |-> "init", args |-> <<>>, status |-> "ok", wagers |-> <<>>,
                      caps |-> <<>>, bank |-> e.bank, peak |-> 0]
            /\ writer = GlobalLogWriter
            /\ disk_ok = TRUE
            /\ inflight = <<>>

Next ==
    \/ EvKelly
    \/ PureKelly
    \/ Fib
    \/ EloKelly
    \/ ParlayBet
    \/ MarginBet
    \/ VigAdjustedBet
    \/ LabouchereBet
    \/ MartingaleBet
    \/ DalembertBet
    \/ ReverseLabouchereBet
    \/ FlatBet
    \/ PercentageBet
    \/ FixedUnitBet
    \/ Bet
    \/ UpdateBank
    \/ WriterRun

Spec == Init /\ [][Next]_vars

-----------------------------------------------------------------------------
(* StreakSpec: the Fibonacci streak over long runs of fib calls, settled by    *)
(* update_bank at an unchanged balance and mixed with flat bets placed through *)
(* bet().  ret.args keeps what the caller passed and the caller's own count:   *)
(* losses and others are the calls made so far, run is the number of losing    *)
(* fib calls in a row since the streak was last 0 by construction or by a win  *)
(* flag (-1 once a bet of another strategy has come in between).               *)

StreakBankInputs == BankrollInputs

StreakArgs(won, unit, run, losses, others) ==
    [won |-> won, unit |-> unit, run |-> run, losses |-> losses, others |-> others]

StreakFib ==
    /\ queue = <<>>
    /\ \E o \in FibOdds, won \in BOOLEAN, u \in UnitInputs, io \in IoOutcomes :
           /\ IF won THEN ret.args.others < MaxOtherCalls
                     ELSE ret.args.losses < MaxStreakCalls
           /\ Call("fib",
                   IF won
                   THEN StreakArgs(TRUE, u, 0, ret.args.losses, ret.args.others + 1)
                   ELSE StreakArgs(FALSE, u,
                                   IF ret.args.run < 0 THEN -1 ELSE ret.args.run + 1,
                                   ret.args.losses + 1, ret.args.others),
                   fib(Eng, o, won, u, None, io))

StreakUpdateBank ==
    /\ queue = <<>>
    /\ ret.args.others < MaxOtherCalls
    /\ \E new \in StreakBankInputs, won \in BOOLEAN, u \in UnitInputs :
           Call("update_bank",
                StreakArgs(won, u, IF won THEN 0 ELSE ret.args.run,
                           ret.args.losses, ret.args.others + 1),
                Out(update_bank(Eng, Dollars(new), won), "ok", <<>>, <<>>))

\* bet("flat", fixed_amount=..., won=...): the table's lambda reads fixed_amount only
StreakBet ==
    /\ queue = <<>>
    /\ ret.args.others < MaxOtherCalls
    /\ \E a \in BaseBetInputs, won \in BOOLEAN, u \in UnitInputs, io \in IoOutcomes :
           Call("flat",
                StreakArgs(won, u, -1, ret.args.losses, ret.args.others + 1),
                bet(Eng, "flat", [fixed_amount |-> a, won |-> won], io))

StreakInit ==
    \E b \in BankrollInputs, m \in MinBankrollInputs, r \in MaxRiskInputs, u \in UnitInputs :
        LET e == BnkRllBrn(b, r, m)
        IN  /\ bank = e.bank
            /\ peak = e.peak
            /\ min_bank = e.min_bank
            /\ fib_streak = e.fib_streak
            /\ stats = e.stats
            /\ risk = e.risk
            /\ history = e.history
            /\ queue = e.queue
            /\ calls = 0
            /\ ret = [op |-> "init", args |-> StreakArgs(FALSE, u, 0, 0, 0),
                      status |-> "ok", wagers |-> <<>>, caps |-> <<>>,
                      bank |-> e.bank, peak |-> 0]
            /\ writer = GlobalLogWriter
            /\ disk_ok = TRUE
            /\ inflight = <<>>

StreakNext ==
    \/ StreakFib
    \/ StreakUpdateBank
    \/ StreakBet
    \/ WriterRun

StreakSpec == StreakInit /\ [][StreakNext]_vars

-----------------------------------------------------------------------------
(* EdgeSpec: the two Kelly strategies called without true_p, on edges below    *)
(* and above their no-edge thresholds, between settlements by update_bank.     *)

\* (p, odds): EV -0.4, EV 0.2, and EV 0.02 at a Kelly fraction of 1/49950
EdgeKellyInputs ==
    {<<Rat(3, 10), FloatOdds(2, 1)>>, <<Rat(3, 5), FloatOdds(2, 1)>>,
     <<Rat(102, 100000), FloatOdds(1000, 1)>>}

\* update_bank(new), in dollars
EdgeBankInputs == {100, 500}

EdgeCallEnabled == calls < MaxEdgeCalls /\ queue = <<>>

EdgeEvKelly ==
    /\ EdgeCallEnabled
    /\ \E x \in EdgeKellyInputs, a \in AggressionInputs, io \in IoOutcomes :
            Call("ev", <<>>, ev_kelly(Eng, x[1], x[2], a, None, io))

EdgePureKelly ==
    /\ EdgeCallEnabled
    /\ \E x \in EdgeKellyInputs, io \in IoOutcomes :
            Call("pure_kelly", <<>>, pure_kelly(Eng, x[1], x[2], None, io))

EdgeUpdateBank ==
    /\ EdgeCallEnabled
    /\ \E new \in EdgeBankInputs :
            Call("update_bank", [new |-> Dollars(new)],
                 Out(update_bank(Eng, Dollars(new), FALSE), "ok", <<>>, <<>>))

EdgeNext ==
    \/ EdgeEvKelly
    \/ EdgePureKelly
    \/ EdgeUpdateBank
    \/ WriterRun

EdgeSpec == Init /\ [][EdgeNext]_vars

-----------------------------------------------------------------------------
(* KellySpec: _kelly_core applied to a grid of (p, odds, true_p).  The call    *)
(* touches no engine state; ret.value is the (kelly_fraction, ev) it returns.  *)

KellyPInputs == {Rat(i, KellyGrid) : i \in 0..KellyGrid}
KellyTruePInputs == {None} \cup {Rat(i, KellyGrid) : i \in {3, 6}}
KellyOddsInputs == {FloatOdds(3, 2), FloatOdds(2, 1), IntOdds(-110), IntOdds(150)}

KellyCore ==
    /\ ret.op = "init"
    /\ ret' = [ret EXCEPT !.op = "_kelly_core",
                          !.value = _kelly_core(ret.args.p, ret.args.odds, ret.args.true_p)]
    /\ calls' = calls + 1
    /\ UNCHANGED <<bank, peak, min_bank, fib_streak, stats, risk, history, queue,
                   writer, disk_ok, inflight>>

KellyInit ==
    \E b \in BankrollInputs, m \in MinBankrollInputs, r \in MaxRiskInputs,
       p \in KellyPInputs, o \in KellyOddsInputs, tp \in KellyTruePInputs :
        LET e == BnkRllBrn(b, r, m)
        IN  /\ bank = e.bank
            /\ peak = e.peak
            /\ min_bank = e.min_bank
            /\ fib_streak = e.fib_streak
            /\ stats = e.stats
            /\ risk = e.risk
            /\ history = e.history
            /\ queue = e.queue
            /\ calls = 0
            /\ ret = [op |-> "init", args |-> [p |-> p, odds |-> o, true_p |-> tp],
                      status |-> "ok", wagers |-> <<>>, caps |-> <<>>,
                      bank |-> e.bank, peak |-> 0, value |-> [f |-> RInt(0), ev |-> RInt(0)]]
            /\ writer = GlobalLogWriter
            /\ disk_ok = TRUE
            /\ inflight = <<>>

KellyNext == KellyCore

KellySpec == KellyInit /\ [][KellyNext]_vars

-----------------------------------------------------------------------------
(* LedgerSpec: one HistoryBuffer of a small capacity, used directly.  The k-th *)
(* record appended carries amount k, which identifies it; calls counts the     *)
(* appends; disk_ok tells whether the flush file can be opened.                *)

LedgerSizeInputs == 1..MaxLedgerSize

LedgerRet(op, w) ==
    [op |-> op, args |-> [w |-> w], status |-> "ok", wagers |-> <<>>, caps |-> <<>>,
     bank |-> bank, peak |-> risk.peak]

\* history.append(wager)
LedgerAppend ==
    /\ calls < MaxAppends
    /\ LET w == Wager("flat", calls + 1, RInt(0), RInt(0))
       IN  /\ history' = append(history, w, disk_ok)
           /\ ret' = LedgerRet("append", w)
    /\ calls' = calls + 1
    /\ UNCHANGED <<bank, peak, min_bank, fib_streak, stats, risk, queue,
                   writer, disk_ok, inflight>>

\* history.flush()
LedgerFlush ==
    /\ history' = flush(history, disk_ok)
    /\ ret' = LedgerRet("flush", None)
    /\ UNCHANGED <<bank, peak, min_bank, fib_streak, stats, risk, queue, calls,
                   writer, disk_ok, inflight>>

\* the file system starts or stops refusing the file
DiskFault ==
    /\ disk_ok' = ~disk_ok
    /\ UNCHANGED <<bank, peak, min_bank, fib_streak, stats, risk, history, queue,
                   calls, ret, writer, inflight>>

LedgerInit ==
    \E b \in BankrollInputs, m \in MinBankrollInputs, r \in MaxRiskInputs,
       n \in LedgerSizeInputs, ff \in BOOLEAN :
        LET e == BnkRllBrn(b, r, m)
        IN  /\ bank = e.bank
            /\ peak = e.peak
            /\ min_bank = e.min_bank
            /\ fib_streak = e.fib_streak
            /\ stats = e.stats
            /\ risk = e.risk
            /\ history = HistoryBuffer(n, ff)
            /\ queue = e.queue
            /\ calls = 0
            /\ ret = [op |-> "init", args |-> [w |-> None], status |-> "ok",
                      wagers |-> <<>>, caps |-> <<>>, bank |-> e.bank, peak |-> 0]
            /\ writer = GlobalLogWriter
            /\ disk_ok = TRUE
            /\ inflight = <<>>

LedgerNext == LedgerAppend \/ LedgerFlush \/ DiskFault

LedgerSpec == LedgerInit /\ [][LedgerNext]_vars

-----------------------------------------------------------------------------
(* StorageSpec: staking calls through bet() while the log file comes and goes. *)
(* The engine starts with the ledger one record short of its capacity, as it   *)
(* is after HistoryMaxSize - 1 recorded no-edge wagers, so that the first call *)
(* triggers the overflow flush.  ret.args keeps the name and the keyword       *)
(* arguments of the call.                                                      *)

\* bet(name, **kw): a losing fib step and a Kelly stake with edge
StorageCallInputs ==
    {[name |-> "fib", kw |-> [o |-> IntOdds(-110), won |-> FALSE,
                                unit |-> Rat(1, 100), p |-> None]],
     [name |-> "ev", kw |-> [p |-> Rat(3, 5), o |-> FloatOdds(2, 1),
                               agg |-> 2, true_p |-> None]]}

\* the zero-stake Wager ev_kelly records at p 0.3, odds 2.0
NoEdgeWager(e) == ev_kelly(e, Rat(3, 10), FloatOdds(2, 1), 2, None, TRUE).wagers[1]

StorageBet ==
    /\ calls < MaxStorageCalls
    /\ \E c \in StorageCallInputs : Call(c.name, c, bet(Eng, c.name, c.kw, disk_ok))

StorageInit ==
    \E b \in BankrollInputs, m \in MinBankrollInputs, r \in MaxRiskInputs :
        LET e == BnkRllBrn(b, r, m)
        IN  /\ bank = e.bank
            /\ peak = e.peak
            /\ min_bank = e.min_bank
            /\ fib_streak = e.fib_streak
            /\ stats = e.stats
            /\ risk = update(e.risk, e.bank)
            /\ history = [e.history EXCEPT
                              !.buffer = [i \in 1..(HistoryMaxSize - 1) |-> NoEdgeWager(e)]]
            /\ queue = e.queue
            /\ calls = 0
            /\ ret = [op |-> "init", args |-> [name |-> "init", kw |-> <<>>],
                      status |-> "ok", wagers |-> <<>>, caps |-> <<>>,
                      bank |-> e.bank, peak |-> e.bank]
            /\ writer = GlobalLogWriter
            /\ disk_ok = TRUE
            /\ inflight = <<>>

StorageNext == StorageBet \/ WriterRun \/ DiskFault

StorageSpec == StorageInit /\ [][StorageNext]_vars

-----------------------------------------------------------------------------
(* WriterSpec: the GlobalLogWriter singleton used directly by threads that     *)
(* call write() and stop().  The k-th record written carries amount k; calls   *)
(* counts the writes.  stop() is two steps, put(None) and the return of        *)
(* thread.join(); inflight holds the stop() calls between the two, each with   *)
(* the number of records enqueued before it was called.  ret.args.stops counts *)
(* the stop() calls made and ret.args.enqueued is the count the stop() that    *)
(* returned last was called at.                                                *)

\* writer.write(data)
WriterWrite ==
    /\ calls < MaxWrites
    /\ queue' = Append(queue, Wager("flat", calls + 1, RInt(0), RInt(0)))
    /\ calls' = calls + 1
    /\ UNCHANGED <<bank, peak, min_bank, fib_streak, stats, risk, history, ret,
                   writer, disk_ok, inflight>>

\* stop(): self.queue.put(None)
WriterStopPut ==
    /\ ret.args.stops < MaxStops
    /\ queue' = Append(queue, Sentinel)
    /\ inflight' = Append(inflight, [op |-> "stop", enqueued |-> calls])
    /\ ret' = [ret EXCEPT !.args.stops = @ + 1]
    /\ UNCHANGED <<bank, peak, min_bank, fib_streak, stats, risk, history, calls,
                   writer, disk_ok>>

\* stop(): self.thread.join() returns once the worker thread has ended
WriterStopJoin ==
    /\ ~writer.alive
    /\ \E i \in 1..Len(inflight) :
            /\ inflight' = SubSeq(inflight, 1, i - 1) \o SubSeq(inflight, i + 1, Len(inflight))
            /\ ret' = [ret EXCEPT !.op = "stop", !.args.enqueued = inflight[i].enqueued]
    /\ UNCHANGED <<bank, peak, min_bank, fib_streak, stats, risk, history, queue, calls,
                   writer, disk_ok>>

WriterInit ==
    \E b \in BankrollInputs, m \in MinBankrollInputs, r \in MaxRiskInputs :
        LET e == BnkRllBrn(b, r, m)
        IN  /\ bank = e.bank
            /\ peak = e.peak
            /\ min_bank = e.min_bank
            /\ fib_streak = e.fib_streak
            /\ stats = e.stats
            /\ risk = e.risk
            /\ history = e.history
            /\ queue = e.queue
            /\ calls = 0
            /\ ret = [op |-> "init", args |-> [enqueued |-> 0, stops |-> 0],
                      status |-> "ok", wagers |-> <<>>, caps |-> <<>>,
                      bank |-> e.bank, peak |-> 0]
            /\ writer = GlobalLogWriter
            /\ disk_ok = TRUE
            /\ inflight = <<>>

WriterNext == WriterWrite \/ WriterStopPut \/ WriterStopJoin \/ WriterRun \/ DiskFault

WriterSpec == WriterInit /\ [][WriterNext]_vars

-----------------------------------------------------------------------------
(* ConcSpec: threads calling flat_bet on one engine while others call          *)
(* update_bank.  flat_bet takes the engine's lock only inside _record, so its  *)
(* statements before it are steps of their own: _check_bank(), risk.cap(...,   *)
(* self.bank), float(amount / self.bank), then _record under the lock.         *)
(* inflight holds one record per call in progress: pc is the statement it is   *)
(* at, checked and capbank the balances _check_bank and cap read.  calls       *)
(* counts the flat_bet calls started, ret.args.settled the update_bank calls.  *)

ConcAmountInputs == {RInt(400)}
ConcBankInputs == {50, 500}

\* the calls in progress without the i-th
Without(s, i) == SubSeq(s, 1, i - 1) \o SubSeq(s, i + 1, Len(s))

\* a call returns or raises: what the caller gets, and the balances it worked on
ConcRet(op, t, status, wagers, caps) ==
    [op |-> op, args |-> [checked |-> t.checked, capbank |-> t.capbank,
                          settled |-> ret.args.settled],
     status |-> status, wagers |-> wagers, caps |-> caps,
     bank |-> bank, peak |-> risk.peak]

ConcThread(raw) ==
    [op |-> "flat", pc |-> "cap", raw |-> raw, checked |-> bank, capbank |-> 0,
     caps |-> <<>>, pct |-> RInt(0)]

\* self._check_bank()
ConcCheck ==
    /\ calls < MaxThreads
    /\ calls' = calls + 1
    /\ \E a \in ConcAmountInputs :
            IF check_bank_raises(Eng)
            THEN /\ ret' = ConcRet("flat", ConcThread(a), "InsufficientBankroll", <<>>, <<>>)
                 /\ UNCHANGED inflight
            ELSE /\ inflight' = Append(inflight, ConcThread(a))
                 /\ UNCHANGED ret
    /\ UNCHANGED <<bank, peak, min_bank, fib_streak, stats, risk, history, queue,
                   writer, disk_ok>>

\* amount = self.risk.cap(Decimal(str(fixed_amount)), self.bank)
ConcCap ==
    /\ \E i \in 1..Len(inflight) :
            LET t == inflight[i]
                c == cap(risk, DollarsToTicks(t.raw), bank)
                t1 == [t EXCEPT !.pc = "pct", !.capbank = bank, !.caps = <<c>>]
            IN  /\ t.pc = "cap"
                /\ IF c.raised
                   THEN /\ inflight' = Without(inflight, i)
                        /\ ret' = ConcRet("flat", t1, "NameError", <<>>, <<c>>)
                   ELSE /\ inflight' = [inflight EXCEPT ![i] = t1]
                        /\ UNCHANGED ret
    /\ UNCHANGED <<bank, peak, min_bank, fib_streak, stats, risk, history, queue, calls,
                   writer, disk_ok>>

\* pct = float(amount / self.bank)
ConcPct ==
    /\ \E i \in 1..Len(inflight) :
            LET t == inflight[i]
            IN  /\ t.pc = "pct"
                /\ IF bank = 0
                   THEN /\ inflight' = Without(inflight, i)
                        /\ ret' = ConcRet("flat", t, "DivisionByZero", <<>>, t.caps)
                   ELSE /\ inflight' = [inflight EXCEPT ![i] =
                                           [t EXCEPT !.pc = "record",
                                                     !.pct = Rat(t.caps[1].returns[1], bank)]]
                        /\ UNCHANGED ret
    /\ UNCHANGED <<bank, peak, min_bank, fib_streak, stats, risk, history, queue, calls,
                   writer, disk_ok>>

\* self._record(wager); return wager
ConcRecord ==
    /\ \E i \in 1..Len(inflight) :
            LET t == inflight[i]
                w == Wager("flat", t.caps[1].returns[1], t.pct, RInt(0))
                e == _record(Eng, w, FALSE, disk_ok)
            IN  /\ t.pc = "record"
                /\ inflight' = Without(inflight, i)
                /\ ret' = ConcRet("flat", t, "ok", <<w>>, t.caps)
                /\ bank' = e.bank
                /\ peak' = e.peak
                /\ fib_streak' = e.fib_streak
                /\ stats' = e.stats
                /\ risk' = e.risk
                /\ history' = e.history
                /\ queue' = e.queue
    /\ UNCHANGED <<min_bank, calls, writer, disk_ok>>

\* update_bank(new), whole under the lock
ConcUpdateBank ==
    /\ ret.args.settled < MaxSettlements
    /\ \E new \in ConcBankInputs :
            LET e == update_bank(Eng, Dollars(new), FALSE)
            IN  /\ bank' = e.bank
                /\ fib_streak' = e.fib_streak
    /\ ret' = [op |-> "update_bank",
               args |-> [checked |-> 0, capbank |-> 0, settled |-> ret.args.settled + 1],
               status |-> "ok", wagers |-> <<>>, caps |-> <<>>,
               bank |-> bank, peak |-> risk.peak]
    /\ UNCHANGED <<peak, min_bank, stats, risk, history, queue, calls,
                   writer, disk_ok, inflight>>

ConcInit ==
    \E b \in BankrollInputs, m \in MinBankrollInputs, r \in MaxRiskInputs :
        LET e == BnkRllBrn(b, r, m)
        IN  /\ bank = e.bank
            /\ peak = e.peak
            /\ min_bank = e.min_bank
            /\ fib_streak = e.fib_streak
            /\ stats = e.stats
            /\ risk = e.risk
            /\ history = e.history
            /\ queue = e.queue
            /\ calls = 0
            /\ ret = [op |-> "init", args |-> [checked |-> 0, capbank |-> 0, settled |-> 0],
                      status |-> "ok", wagers |-> <<>>, caps |-> <<>>,
                      bank |-> e.bank, peak |-> 0]
            /\ writer = GlobalLogWriter
            /\ disk_ok = TRUE
            /\ inflight = <<>>

ConcNext ==
    \/ ConcCheck
    \/ ConcCap
    \/ ConcPct
    \/ ConcRecord
    \/ ConcUpdateBank
    \/ WriterRun

ConcSpec == ConcInit /\ [][ConcNext]_vars

-----------------------------------------------------------------------------
(* DispatchSpec: bet() called with every name of its table and with names     *)
(* outside it, between settlements.  ret.args keeps the name, the keyword      *)
(* arguments and the names listed by the error raised, if any.                 *)

UnknownNames == {"kelly", "Flat", ""}

DispatchBankInputs == {500}

DispatchCallEnabled == calls < MaxDispatchCalls /\ queue = <<>>

DispatchBet ==
    /\ DispatchCallEnabled
    /\ \E s \in Strategies \cup UnknownNames :
            \E kw \in Kwargs(s) :
                Call("bet", [name |-> s, kw |-> kw, error |-> bet_error(s)],
                     bet(Eng, s, kw, disk_ok))

DispatchUpdateBank ==
    /\ DispatchCallEnabled
    /\ \E new \in DispatchBankInputs :
            Call("update_bank", [name |-> "update_bank", kw |-> <<>>, error |-> <<>>],
                 Out(update_bank(Eng, Dollars(new), FALSE), "ok", <<>>, <<>>))

DispatchNext == DispatchBet \/ DispatchUpdateBank \/ WriterRun

DispatchSpec == Init /\ [][DispatchNext]_vars

-----------------------------------------------------------------------------
(* LevelSpec: level(pct) on a risk manager that has seen a peak of 1000 and    *)
(* then the balance of LevelBankInputs, which gives drawdowns 0, 0.3, 0.5 and  *)
(* 0.7.  The fractions are the multiples of 0.025 up to 0.6: on these inputs   *)
(* the double-precision product pct * (1 + drawdown * 2) compares with the     *)
(* boundaries as the exact product does.  ret.args keeps the profile and pct,  *)
(* ret.value the tier returned.                                                *)

LevelProfiles == {"balanced", "aggressive"}
LevelPctInputs == {Rat(i, 40) : i \in 0..24}
LevelPeakInputs == {1000}
LevelBankInputs == {1000, 700, 500, 300}

Level ==
    /\ ret.op = "init"
    /\ ret' = [ret EXCEPT !.op = "level",
                          !.value = level(RISK_PRESETS[ret.args.profile], risk, ret.args.pct)]
    /\ calls' = calls + 1
    /\ UNCHANGED <<bank, peak, min_bank, fib_streak, stats, risk, history, queue,
                   writer, disk_ok, inflight>>

LevelInit ==
    \E pk \in LevelPeakInputs, b \in LevelBankInputs, m \in MinBankrollInputs,
       r \in MaxRiskInputs, prof \in LevelProfiles, pct \in LevelPctInputs :
        LET e == BnkRllBrn(pk, r, m)
        IN  /\ bank = Dollars(b)
            /\ peak = e.peak
            /\ min_bank = e.min_bank
            /\ fib_streak = e.fib_streak
            /\ stats = e.stats
            /\ risk = update(update(e.risk, e.bank), Dollars(b))
            /\ history = e.history
            /\ queue = e.queue
            /\ calls = 0
            /\ ret = [op |-> "init", args |-> [profile |-> prof, pct |-> pct],
                      status |-> "ok", wagers |-> <<>>, caps |-> <<>>,
                      bank |-> Dollars(b), peak |-> e.bank, value |-> "none"]
            /\ writer = GlobalLogWriter
            /\ disk_ok = TRUE
            /\ inflight = <<>>

LevelNext == Level

LevelSpec == LevelInit /\ [][LevelNext]_vars

-----------------------------------------------------------------------------
(* OddsSpec: decimal odds converted to American odds and back.  The decimal    *)
(* odds are the multiples of 0.005 from 1.005 to 3.0; ret.args.odds is the     *)
(* input, ret.value the American form and the decimal odds recovered from it.  *)

OddsInputs == {FloatOdds(i, 200) : i \in 201..600}

RoundTrip ==
    /\ ret.op = "init"
    /\ LET a == american_odds(ret.args.odds)
       IN  ret' = [ret EXCEPT !.op = "round_trip",
                              !.value = [american |-> a,
                                         decimal |-> decimal_odds(IntOdds(a))]]
    /\ calls' = calls + 1
    /\ UNCHANGED <<bank, peak, min_bank, fib_streak, stats, risk, history, queue,
                   writer, disk_ok, inflight>>

OddsInit ==
    \E b \in BankrollInputs, m \in MinBankrollInputs, r \in MaxRiskInputs,
       o \in OddsInputs :
        LET e == BnkRllBrn(b, r, m)
        IN  /\ bank = e.bank
            /\ peak = e.peak
            /\ min_bank = e.min_bank
            /\ fib_streak = e.fib_streak
            /\ stats = e.stats
            /\ risk = e.risk
            /\ history = e.history
            /\ queue = e.queue
            /\ calls = 0
            /\ ret = [op |-> "init", args |-> [odds |-> o],
                      status |-> "ok", wagers |-> <<>>, caps |-> <<>>,
                      bank |-> e.bank, peak |-> 0,
                      value |-> [american |-> 0, decimal |-> RInt(0)]]
            /\ writer = GlobalLogWriter
            /\ disk_ok = TRUE
            /\ inflight = <<>>

OddsNext == RoundTrip

OddsSpec == OddsInit /\ [][OddsNext]_vars

-----------------------------------------------------------------------------
(* MartingaleSpec: martingale_bet between settlements.  ret.args keeps the     *)
(* arguments of the call.                                                      *)

\* (base_bet, consecutive_losses, multiplier): raw stakes 80 and 640
MartingaleInputs == {<<RInt(10), 3, RInt(2)>>, <<RInt(10), 6, RInt(2)>>}
MartingaleBankInputs == {500, 800}

MartingaleCallEnabled == calls < MaxMartingaleCalls /\ queue = <<>>

MartingaleStake ==
    /\ MartingaleCallEnabled
    /\ \E x \in MartingaleInputs :
            Call("martingale",
                 [base_bet |-> x[1], consecutive_losses |-> x[2], multiplier |-> x[3]],
                 martingale_bet(Eng, x[1], x[2], x[3], disk_ok))

MartingaleUpdateBank ==
    /\ MartingaleCallEnabled
    /\ \E new \in MartingaleBankInputs :
            Call("update_bank",
                 [base_bet |-> RInt(0), consecutive_losses |-> 0, multiplier |-> RInt(0)],
                 Out(update_bank(Eng, Dollars(new), FALSE), "ok", <<>>, <<>>))

MartingaleNext == MartingaleStake \/ MartingaleUpdateBank \/ WriterRun

MartingaleSpec == Init /\ [][MartingaleNext]_vars

-----------------------------------------------------------------------------
(* GateSpec: the runs of fib calls of StreakSpec, with fib calls that pass a   *)
(* probability p to the gate in place of the calls of other kinds.  A gated    *)
(* call counts among the others; its ret.args keeps odds and p as well.        *)

\* p below and above the probability implied by the odds of FibOdds
GatePInputs == {Rat(3, 10), Rat(3, 5)}

GateArgs(won, unit, run, losses, others, odds, p) ==
    [won |-> won, unit |-> unit, run |-> run, losses |-> losses, others |-> others,
     odds |-> odds, p |-> p]

GateFib ==
    /\ queue = <<>>
    /\ ret.args.others < MaxOtherCalls
    /\ \E o \in FibOdds, won \in BOOLEAN, u \in UnitInputs, p \in GatePInputs :
           Call("fib",
                GateArgs(won, u, -1, ret.args.losses, ret.args.others + 1, o, p),
                fib(Eng, o, won, u, p, disk_ok))

GateNext == StreakFib \/ GateFib \/ WriterRun

GateSpec == StreakInit /\ [][GateNext]_vars

-----------------------------------------------------------------------------
(* FlushSpec: one ledger shared by threads that append and threads that call   *)
(* flush(), as shutdown does.  append holds the ledger's lock for its whole    *)
(* body; flush and _flush take no lock, so the write of the buffer and the     *)
(* clear of the buffer are steps of their own.  inflight holds the flush()     *)
(* calls that have written and not yet cleared.  The k-th record appended      *)
(* carries amount k; calls counts the appends, ret.args.flushes the flush()    *)
(* calls.  The ledger is the engine's, far from full.                          *)

\* history.append(wager), under self.lock
FlushAppend ==
    /\ calls < MaxFlushAppends
    /\ LET w == Wager("flat", calls + 1, RInt(0), RInt(0))
       IN  /\ history' = append(history, w, disk_ok)
           /\ ret' = [ret EXCEPT !.op = "append", !.args.w = w]
    /\ calls' = calls + 1
    /\ UNCHANGED <<bank, peak, min_bank, fib_streak, stats, risk, queue,
                   writer, disk_ok, inflight>>

\* flush(): with self._safe_open() as f: for w in list(self.buffer): ...
FlushWrite ==
    /\ ret.args.flushes < MaxFlushes
    /\ history.flush_file
    /\ history' = flush_write(history)
    /\ inflight' = Append(inflight, [op |-> "flush", pc |-> "clear"])
    /\ ret' = [ret EXCEPT !.args.flushes = @ + 1]
    /\ UNCHANGED <<bank, peak, min_bank, fib_streak, stats, risk, queue, calls,
                   writer, disk_ok>>

\* flush(): self.buffer.clear()
FlushClear ==
    /\ inflight # <<>>
    /\ history' = flush_clear(history)
    /\ inflight' = Tail(inflight)
    /\ ret' = [ret EXCEPT !.op = "flush"]
    /\ UNCHANGED <<bank, peak, min_bank, fib_streak, stats, risk, queue, calls,
                   writer, disk_ok>>

FlushInit ==
    \E b \in BankrollInputs, m \in MinBankrollInputs, r \in MaxRiskInputs :
        LET e == BnkRllBrn(b, r, m)
        IN  /\ bank = e.bank
            /\ peak = e.peak
            /\ min_bank = e.min_bank
            /\ fib_streak = e.fib_streak
            /\ stats = e.stats
            /\ risk = e.risk
            /\ history = e.history
            /\ queue = e.queue
            /\ calls = 0
            /\ ret = [op |-> "init", args |-> [w |-> None, flushes |-> 0],
                      status |-> "ok", wagers |-> <<>>, caps |-> <<>>,
                      bank |-> e.bank, peak |-> 0]
            /\ writer = GlobalLogWriter
            /\ disk_ok = TRUE
            /\ inflight = <<>>

FlushNext == FlushAppend \/ FlushWrite \/ FlushClear

FlushSpec == FlushInit /\ [][FlushNext]_vars

-----------------------------------------------------------------------------
(* SequenceSpec: reverse_labouchere_bet asked for sequences of 1..MaxNumBets   *)
(* stakes.  ret.args keeps target and num_bets.                                *)

SequenceTargets == {RInt(100)}
SequenceLengths == 1..MaxNumBets

SequenceBet ==
    /\ calls < MaxSequenceCalls
    /\ queue = <<>>
    /\ \E t \in SequenceTargets, n \in SequenceLengths :
            Call("reverse_labouchere", [target |-> t, num_bets |-> n],
                 reverse_labouchere_bet(Eng, t, n, disk_ok))

SequenceNext == SequenceBet \/ WriterRun

SequenceSpec == Init /\ [][SequenceNext]_vars

-----------------------------------------------------------------------------
(* SingletonSpec: the writer of WriterSpec shared by the engines of a process. *)
(* Engines are constructed at any time, each getting the one instance; any of  *)
(* them writes, and shutdown() of any of them calls stop().  ret.args.engines  *)
(* counts the engines constructed.  The worker thread runs whenever it can,    *)
(* and so does a join() whose thread has ended.                                *)

\* BnkRllBrn(...): self.writer = GlobalLogWriter(Path(log_file))
SingletonNew ==
    /\ ret.args.engines < MaxEngines
    /\ writer' = GlobalLogWriterAgain(writer)
    /\ ret' = [ret EXCEPT !.op = "new", !.args.engines = @ + 1]
    /\ UNCHANGED <<bank, peak, min_bank, fib_streak, stats, risk, history, queue, calls,
                   disk_ok, inflight>>

SingletonInit ==
    \E b \in BankrollInputs, m \in MinBankrollInputs, r \in MaxRiskInputs :
        LET e == BnkRllBrn(b, r, m)
        IN  /\ bank = e.bank
            /\ peak = e.peak
            /\ min_bank = e.min_bank
            /\ fib_streak = e.fib_streak
            /\ stats = e.stats
            /\ risk = e.risk
            /\ history = e.history
            /\ queue = e.queue
            /\ calls = 0
            /\ ret = [op |-> "init", args |-> [enqueued |-> 0, stops |-> 0, engines |-> 1],
                      status |-> "ok", wagers |-> <<>>, caps |-> <<>>,
                      bank |-> e.bank, peak |-> 0]
            /\ writer = GlobalLogWriter
            /\ disk_ok = TRUE
            /\ inflight = <<>>

SingletonNext ==
    \/ SingletonNew
    \/ WriterWrite
    \/ WriterStopPut
    \/ WriterStopJoin
    \/ WriterRun

SingletonSpec ==
    /\ SingletonInit
    /\ [][SingletonNext]_vars
    /\ WF_vars(WriterRun)
    /\ WF_vars(WriterStopJoin)

-----------------------------------------------------------------------------
(* Properties *)

\* the call that has just returned was a staking call and returned Wagers
Staked == ret.op \in Strategies /\ ret.wagers # <<>>

\* C1: a staking operation invoked while bank < min_bank (here with a balance
\* that is not negative) fails with the insufficient-bankroll error and leaves
\* bank, fib_streak, stats, peak, the risk manager and the ledger unchanged.
C1_InsufficientBankrollAborts ==
    [][(calls' # calls /\ ret'.op \in Strategies /\ 0 <= bank /\ bank < min_bank)
           => /\ ret'.status = "InsufficientBankroll"
              /\ UNCHANGED <<bank, fib_streak, stats, peak, risk, history>>]_vars

\* C2: with bank > 0, every Wager a strategy returns has
\* amount <= bank * max_risk, bank being the balance at the time of the call.
C2_StakeWithinMaxRisk ==
    (ret.op \in Strategies /\ ret.bank > 0)
        => \A i \in DOMAIN ret.wagers :
               ret.wagers[i].amount * 100 <= ret.bank * risk.max_risk

\* a returned Wager staking exactly bank * max_risk: the cap was the binding limit
C2_StakeAtMaxRisk ==
    /\ Staked
    /\ ret.bank > 0
    /\ \E i \in DOMAIN ret.wagers :
           /\ ret.wagers[i].amount > 0
           /\ ret.wagers[i].amount * 100 = ret.bank * risk.max_risk
           /\ ret.caps[i].amount > ret.wagers[i].amount

\* C3: every Wager produced by a staking operation has amount >= 0.
C3_StakeNonNegative ==
    \A i \in DOMAIN ret.wagers : ret.wagers[i].amount >= 0

\* C4: cap(amount, bank) returns min(amount, ceiling), the ceiling being
\* bank * max_risk, halved exactly when the drawdown is > 0.20; so it never
\* returns more than bank * max_risk.
C4_CapIsMinOfAmountAndCeiling ==
    \A i \in DOMAIN ret.caps :
        LET c == ret.caps[i]
            full == (c.bank * c.max_risk) \div 100
            ceiling == IF RLt(Rat(20, 100), c.drawdown) THEN full \div 2 ELSE full
        IN  /\ Len(c.returns) = 1
            /\ c.returns[1] = Min(c.amount, ceiling)
            /\ c.returns[1] <= full

\* C5: cap never raises, in any reachable state of the risk manager, and
\* returns a non-negative amount that is <= the proposed amount.
C5_CapNeverRaises ==
    \A i \in DOMAIN ret.caps :
        LET c == ret.caps[i]
        IN  /\ ~c.raised
            /\ Len(c.returns) = 1
            /\ 0 <= c.returns[1]
            /\ c.returns[1] <= c.amount

\* C6: once a drawdown above 20% has been observed, the value cap returns is
\* at most half of the value it returns for the same (amount, bank) at zero
\* drawdown.
C6_CapHalvedInDrawdown ==
    \A i \in DOMAIN ret.caps :
        LET c == ret.caps[i]
            calm == cap(RiskManager(c.max_risk), c.amount, c.bank)
        IN  RLt(Rat(20, 100), c.drawdown)
                => /\ Len(c.returns) = 1
                   /\ 2 * c.returns[1] <= calm.returns[1]

\* C7: a staking call made (with a bankroll at or above the minimum) while
\* the bankroll it reads is more than 20% below the peak of the earlier
\* recorded wagers is capped at half of bank * max_risk, and the drawdown its
\* cap uses is the one of that bankroll.
C7_DrawdownHalvesStake ==
    LET seen == update([max_risk |-> risk.max_risk, peak |-> ret.peak,
                        drawdown |-> RInt(0)], ret.bank)
    IN  (ret.op \in Strategies /\ ret.bank >= min_bank)
            => /\ \A i \in DOMAIN ret.caps : ret.caps[i].drawdown = seen.drawdown
               /\ (ret.peak > 0 /\ 5 * (ret.peak - ret.bank) > ret.peak)
                      => /\ ret.status # "NameError"
                         /\ \A i \in DOMAIN ret.wagers :
                                ret.wagers[i].amount * 200 <= ret.bank * risk.max_risk

\* C8: the risk manager's drawdown lies in [0, 1) in every reachable state.
C8_DrawdownInUnitInterval ==
    /\ 0 <= risk.drawdown[1]
    /\ risk.drawdown[1] < risk.drawdown[2]

\* C9: the engine's balance is non-negative in every reachable state.
C9_BankNonNegative == bank >= 0

\* C10: no staking call changes bank, whether it succeeds, stakes zero or
\* fails; update_bank is the only operation that writes bank, and it sets
\* bank to exactly the value it is given.
C10_OnlyUpdateBankWritesBank ==
    [][IF calls' # calls /\ ret'.op = "update_bank"
       THEN bank' = ret'.args.new
       ELSE bank' = bank]_vars

\* a staking call has recorded a positive stake at a balance that an earlier
\* update_bank had set, and the balance is still that one
C10_StakedAtSettledBank ==
    /\ Staked
    /\ ret.status = "ok"
    /\ ret.wagers[1].amount > 0
    /\ stats.placed > 0
    /\ bank \notin {Dollars(b) : b \in BankrollInputs}
    /\ bank = ret.bank

\* C11: after a fib call completes, fib_streak is never greater than 12.
C11_StreakAtMostTwelve == ret.op = "fib" => fib_streak <= 12

\* C12: of 13 losing fib calls in a row from streak 0 (no probability gate),
\* the 13th is the forced reset: it proposes the stake of streak 0, one unit
\* of the bankroll, and leaves the streak at 0.
C12_ResetOnThirteenthLoss ==
    (ret.op = "fib" /\ ret.args.run = 13)
        => /\ fib_streak = 0
           /\ ret.caps # <<>>
           /\ ret.caps[1].amount = QuantizeCents(ret.bank, ret.args.unit)

\* C13: fib_streak is 0 right after any call flagged as a win: fib with
\* won_last, update_bank with won, and a staking call made through bet() with
\* the win flag set.
C13_WinFlagResetsStreak ==
    (ret.op # "init" /\ ret.args.won) => fib_streak = 0

\* the Kelly formula (b*p - q)/b, with b = decimal odds - 1 and q = 1 - p
KellyFormula(p, odds) ==
    LET b == RSub(decimal_odds(odds), RInt(1))
    IN  RDiv(RSub(RMul(b, p), RSub(RInt(1), p)), b)

\* C14: whenever the EV the Kelly core computes is <= 0 the fraction it returns
\* is 0, for all (p, odds, true_p); and a non-zero fraction equals (b*p - q)/b.
C14_KellyFractionGated ==
    ret.op = "_kelly_core"
        => /\ RLeq(ret.value.ev, RInt(0)) => ret.value.f = RInt(0)
           /\ ret.value.f # RInt(0) => ret.value.f = KellyFormula(ret.args.p, ret.args.odds)

\* the core returned 0 for an EV <= 0 (taken from true_p) where the formula
\* alone, taken from p, would have given a non-zero fraction
C14_GateDecided ==
    /\ ret.op = "_kelly_core"
    /\ ret.args.true_p # None
    /\ RLeq(ret.value.ev, RInt(0))
    /\ ret.value.f = RInt(0)
    /\ RLt(RInt(0), KellyFormula(ret.args.p, ret.args.odds))

\* the step is a call of a Kelly strategy that ends with outcome o
KellyCallStep(op, o) == calls' = calls + 1 /\ Call(op, <<>>, o)

\* what C15 asks of a Kelly call with Kelly-core result k, no-edge threshold
\* thr and true_p not supplied: at or below the threshold a zero-stake Wager,
\* appended to the ledger, counters unchanged; above it a positive stake
NoEdgeContract(k, thr) ==
    /\ ret'.status = "ok"
    /\ Len(ret'.wagers) = 1
    /\ IF RLeq(k.ev, thr)
       THEN /\ ret'.wagers[1].amount = 0
            /\ history'.buffer = Append(history.buffer, ret'.wagers[1])
            /\ stats' = stats
       ELSE ret'.wagers[1].amount > 0

\* C15: with the bankroll at or above the minimum, ev_kelly with EV <= 0.015
\* and pure_kelly with EV <= 0 return a Wager of amount 0, append it to the
\* ledger, leave the placed-bet counter and total EV unchanged and raise no
\* error; with EV above the threshold the stake is strictly positive.
C15_NoEdgeIsRecorded ==
    [][bank >= min_bank
           => \A x \in EdgeKellyInputs :
                  /\ \A a \in AggressionInputs :
                         KellyCallStep("ev", ev_kelly(Eng, x[1], x[2], a, None, TRUE))
                             => NoEdgeContract(_kelly_core(x[1], x[2], None), Rat(15, 1000))
                  /\ KellyCallStep("pure_kelly", pure_kelly(Eng, x[1], x[2], None, TRUE))
                         => NoEdgeContract(_kelly_core(x[1], x[2], None), RInt(0))]_vars

\* LedgerSpec: the append of this step, made while the file can be written
LedgerAppendStep == calls' = calls + 1 /\ ret'.op = "append"

\* C16: the ledger never holds more than its capacity; with a flush file and
\* working I/O an append to a ledger holding fewer than capacity - 1 records
\* only buffers the record, and the append that fills the ledger writes every
\* buffered record to the file in insertion order and leaves the buffer empty.
C16_FlushOnFill ==
    [][/\ Len(history'.buffer) <= history'.maxlen
       /\ (LedgerAppendStep /\ history.flush_file /\ disk_ok
               /\ Len(history.buffer) < history.maxlen) =>
            IF Len(history.buffer) + 1 = history.maxlen
            THEN /\ history'.file = history.file \o Append(history.buffer, ret'.args.w)
                 /\ history'.buffer = <<>>
            ELSE /\ history'.file = history.file
                 /\ history'.buffer = Append(history.buffer, ret'.args.w)]_vars

\* a ledger of capacity above 1 has flushed twice, on the fillings only
C16_FlushedOnFill ==
    /\ ret.op = "append"
    /\ history.maxlen > 1
    /\ history.buffer = <<>>
    /\ Len(history.file) = 2 * history.maxlen
    /\ \A i \in 1..Len(history.file) : history.file[i].amount = i

\* the records of the ledger that are in memory or on disk
Kept == {history.buffer[i].amount : i \in 1..Len(history.buffer)}
            \cup {history.file[i].amount : i \in 1..Len(history.file)}

\* C17: on a ledger with a flush file every record appended so far is in the
\* buffer or in the file, whatever flushes have failed.
C17_NoRecordLost == history.flush_file => \A k \in 1..calls : k \in Kept

\* StorageSpec: the call of this step, and what it does when every write succeeds
StorageCallStep == calls' = calls + 1
StoredOutcome == bet(Eng, ret'.args.name, ret'.args.kw, TRUE)

\* the worker takes a record off the queue in this step
WorkerStep == queue # <<>> /\ queue' = Tail(queue)

\* C18: a staking call made while the log file cannot be written returns what
\* it returns when the file can be written (same status, same Wagers) and
\* leaves bank, fib_streak, stats and peak as the successful call does; the
\* worker stays alive after a failed write and attempts the next queued record.
C18_StorageFailureIsSwallowed ==
    [][/\ StorageCallStep =>
            /\ ret'.status = StoredOutcome.status
            /\ ret'.wagers = StoredOutcome.wagers
            /\ ret'.wagers # <<>>
            /\ bank' = StoredOutcome.e.bank
            /\ fib_streak' = StoredOutcome.e.fib_streak
            /\ stats' = StoredOutcome.e.stats
            /\ peak' = StoredOutcome.e.peak
       /\ WorkerStep =>
            /\ writer'.alive
            /\ writer'.attempted = Append(writer.attempted, Head(queue))]_vars

\* a call returned its Wager although the overflow flush failed, and the worker
\* attempted a record after a write of its own had failed
C18_FailuresSwallowed ==
    /\ ret.status = "ok" /\ ret.wagers # <<>>
    /\ Len(history.buffer) = history.maxlen /\ history.file = <<>>
    /\ writer.alive
    /\ Len(writer.attempted) >= Len(writer.written) + 1
    /\ Len(writer.attempted) >= 2
    /\ Len(writer.written) >= 1

\* C20: once a stop() has returned, the worker has ended and has attempted, in
\* the order they were written, every record enqueued before that stop() was
\* called.
C20_StopDrainsQueue ==
    ret.op = "stop" =>
        /\ ~writer.alive
        /\ Len(writer.attempted) >= ret.args.enqueued
        /\ \A k \in 1..Len(writer.attempted) : writer.attempted[k].amount = k

\* C19: a flat_bet Wager is recorded at the balance its _check_bank and its cap
\* read: the balance in force when it is recorded is at least min_bank and the
\* stake is at most that balance times the maximum risk fraction.
C19_RecordedAtCheckedBank ==
    (ret.op = "flat" /\ ret.status = "ok") =>
        /\ ret.args.checked = ret.bank
        /\ ret.args.capbank = ret.bank
        /\ ret.bank >= min_bank
        /\ ret.wagers[1].amount * 100 <= ret.bank * risk.max_risk

\* the fourteen names bet recognizes
RecognizedNames ==
    {"ev", "fib", "vig", "pure_kelly", "elo_kelly", "parlay_bet", "margin_bet",
     "labouchere", "martingale", "dalembert", "reverse_labouchere", "flat",
     "percentage", "fixed_unit"}

\* the label of the Wagers each strategy builds
StrategyLabel(name) ==
    CASE name = "ev" -> "EV-Kelly"
      [] name = "elo_kelly" -> "EV-Kelly"
      [] name = "parlay_bet" -> "parlay"
      [] name = "margin_bet" -> "margin"
      [] OTHER -> name

DispatchStep == calls' = calls + 1 /\ ret'.op = "bet"

\* C21: bet with a name outside the fourteen raises an error listing exactly
\* those names, returns no Wager and leaves the engine, its ledger and its log
\* queue as they were; with one of the fourteen it is not refused and every
\* Wager it returns carries the label of that name's strategy.
C21_BetDispatch ==
    [][DispatchStep =>
        IF ret'.args.name \notin RecognizedNames
        THEN /\ ret'.status = "InvalidStrategy"
             /\ {ret'.args.error[i] : i \in 1..Len(ret'.args.error)} = RecognizedNames
             /\ ret'.wagers = <<>>
             /\ UNCHANGED <<bank, peak, min_bank, fib_streak, stats, risk, history, queue>>
        ELSE /\ ret'.status # "InvalidStrategy"
             /\ ret'.args.error = <<>>
             /\ \A i \in 1..Len(ret'.wagers) :
                    ret'.wagers[i].strategy = StrategyLabel(ret'.args.name)]_vars

\* an unknown name was refused on an engine that had recorded a wager before
C21_UnknownNameRefused ==
    /\ ret.op = "bet" /\ ret.args.name \notin RecognizedNames
    /\ ret.status = "InvalidStrategy"
    /\ Len(history.buffer) > 0

\* the tiers in order of severity, and the upper boundary of the three bands
Severity(tier) ==
    CASE tier = "low" -> 0 [] tier = "medium" -> 1 [] tier = "high" -> 2 [] OTHER -> 3
Boundary(base, tier) ==
    CASE tier = "low" -> base.low [] tier = "medium" -> base.med [] OTHER -> base.high
Adj(pct, drawdown) == RMul(pct, RAdd(RInt(1), RMul(RInt(2), drawdown)))

\* the managers of LevelSpec, after each balance
LevelManagers ==
    {update(update(RiskManager(r), Dollars(pk)), Dollars(b)) :
        r \in MaxRiskInputs, pk \in LevelPeakInputs, b \in LevelBankInputs}

\* C22: level(pct) is "insane" exactly when adj = pct * (1 + 2 * drawdown) is
\* above the high boundary, and otherwise the least severe band whose upper
\* boundary is at least adj (a boundary belongs to its band); at a larger
\* drawdown the tier for the same pct is at least as severe.
C22_LevelIsLowestBand ==
    ret.op = "level" =>
        LET base == RISK_PRESETS[ret.args.profile]
            adj == Adj(ret.args.pct, risk.drawdown)
            fits == {t \in {"low", "medium", "high"} : RLeq(adj, Boundary(base, t))}
        IN  /\ IF fits = {} THEN ret.value = "insane"
               ELSE /\ ret.value \in fits
                    /\ \A t \in fits : Severity(ret.value) <= Severity(t)
            /\ \A m \in LevelManagers :
                   RLeq(risk.drawdown, m.drawdown) =>
                       Severity(ret.value) <= Severity(level(base, m, ret.args.pct))

\* adj is exactly the medium boundary, in drawdown, and the tier is medium
C22_BoundaryInclusive ==
    /\ ret.op = "level"
    /\ RLt(RInt(0), risk.drawdown)
    /\ Adj(ret.args.pct, risk.drawdown) = RISK_PRESETS[ret.args.profile].med
    /\ ret.value = "medium"

\* C23: decimal odds converted to American odds and back to decimal odds are
\* within 0.01 of the odds converted.
C23_OddsRoundTrip ==
    ret.op = "round_trip" =>
        LET d == Rat(ret.args.odds.n, ret.args.odds.d)
            diff == RSub(ret.value.decimal, d)
        IN  /\ RLeq(diff, Rat(1, 100))
            /\ RLeq(Rat(-1, 100), diff)

\* C24: a martingale_bet call made with the bankroll at or above the minimum
\* returns one Wager whose stake is the smaller of base_bet *
\* multiplier^consecutive_losses and the cap in force.
C24_MartingaleStake ==
    (ret.op = "martingale" /\ ret.bank >= min_bank) =>
        /\ ret.status = "ok"
        /\ Len(ret.wagers) = 1
        /\ ret.wagers[1].amount =
               Min(DollarsToTicks(RMul(ret.args.base_bet,
                                       RPow(ret.args.multiplier, ret.args.consecutive_losses))),
                   ret.caps[1].ceiling)

\* GateSpec: the fib call of this step; whether the gate skipped it; the streak
\* after the handling of the win flag, and whether the reset was then forced
FibStep == calls' = calls + 1 /\ ret'.op = "fib"
FibSkipped ==
    /\ "p" \in DOMAIN ret'.args
    /\ RLt(ret'.args.p, american_implied_win_prob(ret'.args.odds))
StreakAfterWin == IF ret'.args.won THEN 0 ELSE fib_streak
FibForced == StreakAfterWin > 12

Recorded(h) == h.file \o h.buffer

RECURSIVE EvSum(_)
EvSum(ws) ==
    IF ws = <<>> THEN RInt(0)
    ELSE RAdd(EvSum(SubSeq(ws, 1, Len(ws) - 1)),
              RMul(RInt(ws[Len(ws)].amount), ws[Len(ws)].ev))

Placed(ws) == SelectSeq(ws, LAMBDA w : w.amount > 0)

\* C26: a staking call that returns appends the Wagers it returns to the
\* ledger, each once and in order; after every step the placed counter is the
\* number of recorded Wagers with a positive amount and total_ev the sum of
\* amount * ev over them.
C26_StatsMatchLedger ==
    [][/\ stats'.placed = Len(Placed(Recorded(history')))
       /\ stats'.total_ev = EvSum(Placed(Recorded(history')))
       /\ (DispatchStep /\ ret'.status = "ok") =>
              Recorded(history') = Recorded(history) \o ret'.wagers]_vars

\* a zero-stake Wager and a staked one with a non-zero EV are both recorded,
\* and one bet counts as placed
C26_ZeroStakeNotCounted ==
    /\ Len(history.buffer) = 2
    /\ history.buffer[1].amount = 0
    /\ history.buffer[2].amount > 0
    /\ stats.placed = 1
    /\ RLt(RInt(0), stats.total_ev)

\* C28: every Wager with a positive amount returned by a call carries as
\* pct_bank its amount over the bankroll of the call, to within the cent the
\* amount is rounded to, and so a pct_bank no larger than the maximum risk
\* fraction.
C28_PctBankIsAmountOverBank ==
    (ret.op = "bet" /\ ret.status = "ok" /\ ret.bank > 0) =>
        \A i \in 1..Len(ret.wagers) :
            LET w == ret.wagers[i]
                off == RSub(RMul(w.pct_bank, RInt(ret.bank)), RInt(w.amount))
            IN  w.amount > 0 =>
                    /\ RLeq(off, RInt(2)) /\ RLeq(RInt(-2), off)
                    /\ RLeq(w.pct_bank, Rat(risk.max_risk, 100))

\* C27: whatever the interleaving of append and flush(), no appended record is
\* discarded unwritten: every record appended so far is in the buffer or in
\* the file.
C27_FlushExcludesAppend == {k \in 1..calls : k \notin Kept} = {}

\* C29: reverse_labouchere_sequence(target, num_bets) has num_bets stakes and
\* reads the same in both directions, and a reverse_labouchere_bet call that
\* returns has returned num_bets Wagers and recorded as many.
C29_SequenceHasNumBets ==
    (ret.op = "reverse_labouchere" /\ ret.status = "ok") =>
        LET sequence == reverse_labouchere_sequence(ret.args.target, ret.args.num_bets)
        IN  /\ Len(sequence) = ret.args.num_bets
            /\ sequence = Reversed(sequence)
            /\ Len(ret.wagers) = ret.args.num_bets
            /\ Len(history.buffer) >= ret.args.num_bets

\* the worker has attempted the k-th record written
Attempted(k) == \E i \in 1..Len(writer.attempted) : writer.attempted[i].amount = k

\* C30: every record passed to write() is eventually attempted by the worker,
\* whichever engine wrote it and whether or not a shutdown() came before.
C30_EveryWriteAttempted == \A k \in 1..MaxWrites : (calls >= k) ~> Attempted(k)

====
